---- MODULE Spec2Model ----
(***************************************************************************)
(* Verification model of btclib's message signing (signmessage.py), its    *)
(* varint codec (varint.py) and the curve layer exercised by               *)
(* tests/test_curves.py.                                                   *)
(*                                                                         *)
(* Bytes are integers in 0..255, byte strings are sequences of bytes.      *)
(* Python's unbounded int is modelled, where 64 bits and more are needed   *)
(* (varint), as five little-endian 16-bit limbs.                           *)
(***************************************************************************)
EXTENDS Integers, Sequences, FiniteSets, TLC

VARIABLES op, vint, venc, stream, vdec, cv, pc, signed, vcall, jv, vs

vars == <<op, vint, venc, stream, vdec, cv, pc, signed, vcall, jv, vs>>

None == [err |-> "None"]

(***************************************************************************)
(* Outcome of a call: a returned value, or the exception raised            *)
(***************************************************************************)
Ok(v) == [err |-> "ok", val |-> v]

Raise(type, what) == [err |-> type, what |-> what]

IsOk(r) == r.err = "ok"

ValueError == "ValueError"

IndexError == "IndexError"

(***************************************************************************)
(* Python int as limbs (varint.py works on values up to 2^64 and beyond)   *)
(***************************************************************************)
LimbBase == 65536

NLimbs == 5

\* the integer literal c < 2^16 as a limb vector
Small(c) == [k \in 1..NLimbs |-> IF k = 1 THEN c ELSE 0]

\* 0xffff, 0xffffffff, 0xffffffffffffffff
AllOnes(nl) == [k \in 1..NLimbs |-> IF k <= nl THEN LimbBase - 1 ELSE 0]

RECURSIVE LeqFrom(_, _, _)
LeqFrom(x, y, k) ==
    IF k = 0 THEN TRUE
    ELSE IF x[k] < y[k] THEN TRUE
    ELSE IF x[k] > y[k] THEN FALSE
    ELSE LeqFrom(x, y, k - 1)

\* x <= y on Python ints
Leq(x, y) == LeqFrom(x, y, NLimbs)

\* i.to_bytes(n, byteorder='little'), for i < 256^n
to_bytes_little(i, n) ==
    [k \in 1..n |-> IF k % 2 = 1 THEN i[(k + 1) \div 2] % 256
                    ELSE i[k \div 2] \div 256]

\* int.from_bytes(bs, byteorder='little'), for Len(bs) <= 8
from_bytes_little(bs) ==
    [k \in 1..NLimbs |->
        (IF 2 * k - 1 <= Len(bs) THEN bs[2 * k - 1] ELSE 0)
        + 256 * (IF 2 * k <= Len(bs) THEN bs[2 * k] ELSE 0)]

(***************************************************************************)
(* varint.py                                                               *)
(***************************************************************************)
\* io.BytesIO: a buffer and a read position
BytesIO(bs) == [buf |-> bs, pos |-> 0]

\* stream.read(n): the bytes read (fewer than n at the end of the buffer)
ReadBytes(st, n) ==
    SubSeq(st.buf, st.pos + 1,
           IF st.pos + n <= Len(st.buf) THEN st.pos + n ELSE Len(st.buf))

\* stream.read(n): the stream afterwards
ReadAdvance(st, n) ==
    [st EXCEPT !.pos = IF st.pos + n <= Len(st.buf) THEN st.pos + n
                       ELSE Len(st.buf)]

\* encode with the first boundary off by one (0xfc takes the 0xfd prefix)
encode_strict_fc(i) ==
    IF Leq(i, Small(251)) THEN Ok(<<i[1]>>)
    ELSE IF Leq(i, AllOnes(1)) THEN Ok(<<253>> \o to_bytes_little(i, 2))
    ELSE IF Leq(i, AllOnes(2)) THEN Ok(<<254>> \o to_bytes_little(i, 4))
    ELSE IF Leq(i, AllOnes(4)) THEN Ok(<<255>> \o to_bytes_little(i, 8))
    ELSE Raise(ValueError, "integer too large for varint encoding")

\* encode(i): the bytes, or the error raised
encode(i) ==
    IF Leq(i, Small(252)) THEN Ok(<<i[1]>>)
    ELSE IF Leq(i, AllOnes(1)) THEN Ok(<<253>> \o to_bytes_little(i, 2))
    ELSE IF Leq(i, AllOnes(2)) THEN Ok(<<254>> \o to_bytes_little(i, 4))
    ELSE IF Leq(i, AllOnes(4)) THEN Ok(<<255>> \o to_bytes_little(i, 8))
    ELSE Raise(ValueError, "integer too large for varint encoding")

\* decode reading four bytes after the marker 0xfd
decode_wide_fd(st) ==
    LET first == ReadBytes(st, 1)
        st1   == ReadAdvance(st, 1)
    IN  IF first = <<>>
        THEN [ret |-> Raise(IndexError, "index out of range"), st |-> st1]
        ELSE IF first[1] \in {253, 254}
             THEN [ret |-> Ok(from_bytes_little(ReadBytes(st1, 4))),
                   st  |-> ReadAdvance(st1, 4)]
        ELSE IF first[1] = 255
             THEN [ret |-> Ok(from_bytes_little(ReadBytes(st1, 8))),
                   st  |-> ReadAdvance(st1, 8)]
        ELSE [ret |-> Ok(Small(first[1])), st |-> st1]

\* decode(stream) on a BytesIO: the value returned and the stream afterwards
decode(st) ==
    LET first == ReadBytes(st, 1)
        st1   == ReadAdvance(st, 1)
    IN  IF first = <<>>
        THEN [ret |-> Raise(IndexError, "index out of range"), st |-> st1]
        ELSE IF first[1] = 253
             THEN [ret |-> Ok(from_bytes_little(ReadBytes(st1, 2))),
                   st  |-> ReadAdvance(st1, 2)]
        ELSE IF first[1] = 254
             THEN [ret |-> Ok(from_bytes_little(ReadBytes(st1, 4))),
                   st  |-> ReadAdvance(st1, 4)]
        ELSE IF first[1] = 255
             THEN [ret |-> Ok(from_bytes_little(ReadBytes(st1, 8))),
                   st  |-> ReadAdvance(st1, 8)]
        ELSE [ret |-> Ok(Small(first[1])), st |-> st1]

RECURSIVE encode_all(_)
\* b''.join(encode(i) for i in ints): the stream a writer of varints fills
encode_all(ints) ==
    IF ints = <<>> THEN <<>>
    ELSE encode(Head(ints)).val \o encode_all(Tail(ints))

(***************************************************************************)
(* Byte strings and fixed-width big-endian integers                        *)
(***************************************************************************)
RECURSIVE from_bytes_big(_)
\* int.from_bytes(bs, 'big')
from_bytes_big(bs) ==
    IF bs = <<>> THEN 0
    ELSE from_bytes_big(SubSeq(bs, 1, Len(bs) - 1)) * 256 + bs[Len(bs)]

RECURSIVE Pow256(_)
Pow256(e) == IF e = 0 THEN 1 ELSE 256 * Pow256(e - 1)

\* n.to_bytes(size, 'big') for 0 <= n < 2^24: the high bytes are zero
to_bytes_big(n, size) ==
    [k \in 1..size |-> IF size - k >= 3 THEN 0
                       ELSE (n \div Pow256(size - k)) % 256]

\* bytes.hex(): two hexadecimal digits (0..15) per byte
hex(bs) ==
    [k \in 1..(2 * Len(bs)) |-> IF k % 2 = 1 THEN bs[(k + 1) \div 2] \div 16
                                ELSE bs[k \div 2] % 16]

\* bytes.fromhex(h): raises on an odd number of digits
fromhex(h) ==
    IF Len(h) % 2 = 1 THEN Raise(ValueError, "non-hexadecimal number")
    ELSE Ok([k \in 1..(Len(h) \div 2) |-> 16 * h[2 * k - 1] + h[2 * k]])

\* octets are either bytes or a hexadecimal string
Bytes(bs) == [kind |-> "bytes", data |-> bs]

HexStr(h) == [kind |-> "str", data |-> h]

\* bytes_from_octets(o): a hex string is converted, bytes are left alone
bytes_from_octets(o) ==
    IF o.kind = "str" THEN fromhex(o.data) ELSE Ok(o.data)

(***************************************************************************)
(* NumberTheory                                                            *)
(***************************************************************************)
\* square the power h of the upper bits, multiply for an odd exponent
ModPowStep(h, b, e, m) ==
    IF e % 2 = 1 THEN (((h * h) % m) * (b % m)) % m ELSE (h * h) % m

RECURSIVE ModPow(_, _, _)
ModPow(b, e, m) ==
    IF e = 0 THEN 1 % m
    ELSE ModPowStep(ModPow(b, e \div 2, m), b, e, m)

\* mod_inv(a, m) for a prime m: the unique b in [1, m-1] with
\* a*b = 1 (mod m), an error when m divides a
mod_inv(a, m) ==
    IF a % m = 0 THEN Raise(ValueError, "no inverse")
    ELSE Ok(ModPow(a % m, m - 2, m))

\* legendre(a, p): 1 residue, -1 non-residue, 0 for a = 0 (mod p)
legendre(a, p) ==
    IF ModPow(a, (p - 1) \div 2, p) = p - 1 THEN -1
    ELSE IF a % p = 0 THEN 0
    ELSE 1

RECURSIVE OddPart(_)
OddPart(q) == IF q % 2 = 0 THEN OddPart(q \div 2) ELSE q

RECURSIVE TwoExp(_)
TwoExp(q) == IF q % 2 = 0 THEN 1 + TwoExp(q \div 2) ELSE 0

RECURSIVE Pow2(_)
Pow2(e) == IF e = 0 THEN 1 ELSE 2 * Pow2(e - 1)

\* the least i in 1..m-1 with t^(2^i) = 1
LeastOrderExp(p, m, t) ==
    CHOOSE j \in 1..(m - 1) :
        /\ ModPow(t, Pow2(j), p) = 1
        /\ \A l \in 1..(j - 1) : ModPow(t, Pow2(l), p) # 1

RECURSIVE TonelliLoop(_, _, _, _, _)

RECURSIVE TonelliStep(_, _, _, _, _, _)
\* one round of Tonelli-Shanks with b = c^(2^(m-i-1))
TonelliStep(p, i, bb, c, t, r) ==
    TonelliLoop(p, i, (bb * bb) % p, (t * bb * bb) % p, (r * bb) % p)

\* the main loop of Tonelli-Shanks: invariant r*r = t*a, t of order 2^(m-1)
TonelliLoop(p, m, c, t, r) ==
    IF t = 1 THEN r
    ELSE TonelliStep(p, LeastOrderExp(p, m, t),
                     ModPow(c, Pow2(m - LeastOrderExp(p, m, t) - 1), p),
                     c, t, r)

\* the least non-residue mod p
NonResidue(p) ==
    CHOOSE w \in 2..(p - 1) :
        /\ legendre(w, p) = -1
        /\ \A v \in 2..(w - 1) : legendre(v, p) # -1

\* Tonelli-Shanks for a residue aa, p - 1 = q * 2^s with q odd
Tonelli(aa, p, q, s) ==
    TonelliLoop(p, s, ModPow(NonResidue(p), q, p), ModPow(aa, q, p),
                ModPow(aa, (q + 1) \div 2, p))

\* mod_sqrt for a already reduced mod p
mod_sqrt_reduced(aa, p) ==
    IF aa = 0 THEN Ok(0)
    ELSE IF legendre(aa, p) # 1 THEN Raise(ValueError, "no root")
    ELSE IF p % 4 = 3 THEN Ok(ModPow(aa, (p + 1) \div 4, p))
    ELSE Ok(Tonelli(aa, p, OddPart(p - 1), TwoExp(p - 1)))

\* mod_sqrt(a, p): a square root of a mod p, DomainError for a non-residue
mod_sqrt(a, p) == mod_sqrt_reduced(a % p, p)

(***************************************************************************)
(* Curve: y^2 = x^3 + a*x + b over GF(p), generator G of prime order n     *)
(***************************************************************************)
\* the point at infinity; a finite point is the pair <<x, y>>
INF == <<>>

\* bytes needed for a field element
psize(ec) == IF ec.p < 256 THEN 1 ELSE 2

ec11_7 == [p |-> 11, a |-> 2, b |-> 7, G |-> <<6, 9>>, n |-> 7, h |-> 2]

ec13_11 == [p |-> 13, a |-> 7, b |-> 6, G |-> <<1, 1>>, n |-> 11, h |-> 1]

ec23_31 == [p |-> 23, a |-> 5, b |-> 1, G |-> <<0, 1>>, n |-> 31, h |-> 1]

\* two-byte field elements: x and y up to 282
ec283_277 == [p |-> 283, a |-> 0, b |-> 3, G |-> <<1, 2>>, n |-> 277, h |-> 1]

\* y^2 = x^3 + 7 with n < p and cofactor 1, as secp256k1, over GF(43)
secp256k1 == [p |-> 43, a |-> 0, b |-> 7, G |-> <<2, 12>>, n |-> 31, h |-> 1]

all_curves == {ec11_7, ec13_11, ec23_31, ec283_277, secp256k1}

\* x^3 + a*x + b mod p
y2(ec, x) == (x * x * x + ec.a * x + ec.b) % ec.p

\* is_on_curve(P): INF is on the curve
is_on_curve(ec, P) ==
    \/ P = INF
    \/ /\ Len(P) = 2
       /\ P[1] \in 0..(ec.p - 1)
       /\ P[2] \in 0..(ec.p - 1)
       /\ (P[2] * P[2]) % ec.p = y2(ec, P[1])

\* opposite(P): (x, p - y), INF for INF
opposite(ec, P) ==
    IF P = INF THEN INF ELSE <<P[1], (ec.p - P[2]) % ec.p>>

\* the third point of the line of slope lam through P and Q
ThirdY(ec, P, lam, x) ==
    <<x, (lam * ((P[1] + ec.p - x) % ec.p) + ec.p - P[2]) % ec.p>>

Third(ec, P, Q, lam) ==
    ThirdY(ec, P, lam, (lam * lam + 2 * ec.p - P[1] - Q[1]) % ec.p)

\* add with the test for opposite points left out: P + (-P) is doubled
add_no_opposite(ec, P, Q) ==
    IF P = INF THEN Q
    ELSE IF Q = INF THEN P
    ELSE IF P[1] = Q[1]
         THEN IF P[2] = 0 THEN INF
              ELSE Third(ec, P, Q,
                         ((3 * P[1] * P[1] + ec.a)
                          * mod_inv(2 * P[2], ec.p).val) % ec.p)
    ELSE Third(ec, P, Q,
               (((Q[2] + ec.p - P[2]) % ec.p)
                * mod_inv(Q[1] + ec.p - P[1], ec.p).val) % ec.p)

\* add(P, Q): the group law in affine coordinates
add(ec, P, Q) ==
    IF P = INF THEN Q
    ELSE IF Q = INF THEN P
    ELSE IF P[1] = Q[1]
         THEN IF (P[2] + Q[2]) % ec.p = 0 THEN INF
              ELSE Third(ec, P, Q,
                         ((3 * P[1] * P[1] + ec.a)
                          * mod_inv(2 * P[2], ec.p).val) % ec.p)
    ELSE Third(ec, P, Q,
               (((Q[2] + ec.p - P[2]) % ec.p)
                * mod_inv(Q[1] + ec.p - P[1], ec.p).val) % ec.p)

\* _add_aff(Q, R): the affine sum
_add_aff(ec, Q, R) == add(ec, Q, R)

\* the point at infinity in Jacobian coordinates: Z = 0
INFJ == <<1, 1, 0>>

\* _jac_from_aff(Q): (x, y, 1), Z = 0 for INF
_jac_from_aff(Q) == IF Q = INF THEN INFJ ELSE <<Q[1], Q[2], 1>>

\* the affine point (X / Z^2, Y / Z^3) for the inverse zi of Z
aff_scaled(ec, Q, zi) ==
    <<(Q[1] * ((zi * zi) % ec.p)) % ec.p,
      (Q[2] * ((((zi * zi) % ec.p) * zi) % ec.p)) % ec.p>>

\* _aff_from_jac(Q): INF for Z = 0
_aff_from_jac(ec, Q) ==
    IF Q[3] = 0 THEN INF ELSE aff_scaled(ec, Q, mod_inv(Q[3], ec.p).val)

\* a - b mod p, for a and b in [0, p-1]
SubMod(ec, a, b) == (a + ec.p - b) % ec.p

\* a * b mod p
MulMod(ec, a, b) == (a * b) % ec.p

\* the doubling of Q from W = 3 X^2 + a Z^4, V = 4 X Y^2 and
\* X3 = W^2 - 2 V: Y3 = W (V - X3) - 8 Y^4, Z3 = 2 Y Z
jac_double_from(ec, Q, W, V, X) ==
    <<X,
      SubMod(ec, MulMod(ec, W, SubMod(ec, V, X)),
             MulMod(ec, 8, MulMod(ec, MulMod(ec, Q[2], Q[2]),
                                  MulMod(ec, Q[2], Q[2])))),
      MulMod(ec, 2, MulMod(ec, Q[2], Q[3]))>>

jac_double_WV(ec, Q, W, V) ==
    jac_double_from(ec, Q, W, V,
                    SubMod(ec, MulMod(ec, W, W), MulMod(ec, 2, V)))

\* the doubling with the term a Z^4 of W left out
jac_double_no_a(ec, Q) ==
    jac_double_WV(ec, Q, MulMod(ec, 3, MulMod(ec, Q[1], Q[1])),
                  MulMod(ec, 4, MulMod(ec, Q[1], MulMod(ec, Q[2], Q[2]))))

\* the doubling branch of _add_jac
jac_double(ec, Q) ==
    jac_double_WV(ec, Q,
                  (MulMod(ec, 3, MulMod(ec, Q[1], Q[1]))
                   + MulMod(ec, ec.a % ec.p,
                            MulMod(ec, MulMod(ec, Q[3], Q[3]),
                                   MulMod(ec, Q[3], Q[3])))) % ec.p,
                  MulMod(ec, 4, MulMod(ec, Q[1], MulMod(ec, Q[2], Q[2]))))

\* the chord through Q and R from T = Y1 Z2^3, W = U - T, M = X1 Z2^2,
\* V = N - M and X3 = W^2 - V^3 - 2 M V^2
jac_chord_from(ec, Q, R, T, W, M, V, X) ==
    <<X,
      SubMod(ec, MulMod(ec, W, SubMod(ec, MulMod(ec, M, MulMod(ec, V, V)),
                                      X)),
             MulMod(ec, T, MulMod(ec, V, MulMod(ec, V, V)))),
      MulMod(ec, V, MulMod(ec, Q[3], R[3]))>>

jac_chord_TWMV(ec, Q, R, T, W, M, V) ==
    jac_chord_from(ec, Q, R, T, W, M, V,
                   SubMod(ec,
                          SubMod(ec, MulMod(ec, W, W),
                                 MulMod(ec, V, MulMod(ec, V, V))),
                          MulMod(ec, 2, MulMod(ec, M, MulMod(ec, V, V)))))

\* the branches of _add_jac for operands with Z # 0, from
\* T = Y1 Z2^3, U = Y2 Z1^3, M = X1 Z2^2, N = X2 Z1^2
jac_branch(ec, Q, R, T, U, M, N) ==
    IF M = N
    THEN IF T = U THEN jac_double(ec, Q) ELSE INFJ
    ELSE jac_chord_TWMV(ec, Q, R, T, SubMod(ec, U, T), M,
                        SubMod(ec, N, M))

\* jac_branch with the doubling that leaves a Z^4 out
jac_branch_no_a(ec, Q, R, T, U, M, N) ==
    IF M = N
    THEN IF T = U THEN jac_double_no_a(ec, Q) ELSE INFJ
    ELSE jac_chord_TWMV(ec, Q, R, T, SubMod(ec, U, T), M,
                        SubMod(ec, N, M))

\* _add_jac with the doubling that leaves a Z^4 out
_add_jac_no_a(ec, Q, R) ==
    IF Q[3] = 0 THEN R
    ELSE IF R[3] = 0 THEN Q
    ELSE jac_branch_no_a(
             ec, Q, R,
             MulMod(ec, Q[2], MulMod(ec, R[3], MulMod(ec, R[3], R[3]))),
             MulMod(ec, R[2], MulMod(ec, Q[3], MulMod(ec, Q[3], Q[3]))),
             MulMod(ec, Q[1], MulMod(ec, R[3], R[3])),
             MulMod(ec, R[1], MulMod(ec, Q[3], Q[3])))

\* _add_jac(Q, R): the group law in Jacobian coordinates
_add_jac(ec, Q, R) ==
    IF Q[3] = 0 THEN R
    ELSE IF R[3] = 0 THEN Q
    ELSE jac_branch(
             ec, Q, R,
             MulMod(ec, Q[2], MulMod(ec, R[3], MulMod(ec, R[3], R[3]))),
             MulMod(ec, R[2], MulMod(ec, Q[3], MulMod(ec, Q[3], Q[3]))),
             MulMod(ec, Q[1], MulMod(ec, R[3], R[3])),
             MulMod(ec, R[1], MulMod(ec, Q[3], Q[3])))

RECURSIVE mult(_, _, _)
\* mult(k, P): double and add, k >= 0
mult(ec, k, P) ==
    IF k = 0 \/ P = INF THEN INF
    ELSE add(ec, mult(ec, k \div 2, add(ec, P, P)),
             IF k % 2 = 1 THEN P ELSE INF)

\* the root of the parity asked for, of the two roots root and p - root
root_of_parity(ec, root, odd) ==
    IF ~IsOk(root) THEN root
    ELSE IF root.val % 2 = odd THEN root
    ELSE Ok(ec.p - root.val)

\* y_odd(x, odd): the root of y^2 = x^3 + a*x + b of the parity asked for
y_odd(ec, x, odd) ==
    IF x \notin 0..(ec.p - 1) THEN Raise(ValueError, "x not in [0, p-1]")
    ELSE root_of_parity(ec, mod_sqrt(y2(ec, x), ec.p), odd)

\* every finite point of the curve
Points(ec) ==
    {P \in (0..(ec.p - 1)) \X (0..(ec.p - 1)) : is_on_curve(ec, P)}

(***************************************************************************)
(* PointCodec                                                              *)
(***************************************************************************)
\* compressed encoding with the parity prefixes exchanged
bytes_from_point_swapped(ec, P, compressed) ==
    IF P = INF \/ ~is_on_curve(ec, P)
    THEN Raise(ValueError, "point not on curve")
    ELSE IF compressed
         THEN Ok(<<IF P[2] % 2 = 1 THEN 2 ELSE 3>>
                 \o to_bytes_big(P[1], psize(ec)))
    ELSE Ok(<<4>> \o to_bytes_big(P[1], psize(ec))
                  \o to_bytes_big(P[2], psize(ec)))

\* bytes_from_point(P, compressed, ec), octets_from_point(ec, P, compressed)
bytes_from_point(ec, P, compressed) ==
    IF P = INF \/ ~is_on_curve(ec, P)
    THEN Raise(ValueError, "point not on curve")
    ELSE IF compressed
         THEN Ok(<<IF P[2] % 2 = 1 THEN 3 ELSE 2>>
                 \o to_bytes_big(P[1], psize(ec)))
    ELSE Ok(<<4>> \o to_bytes_big(P[1], psize(ec))
                  \o to_bytes_big(P[2], psize(ec)))

\* the compressed point of x-coordinate Px, given the root y_odd found
point_from_x(Px, y) ==
    IF IsOk(y) THEN Ok(<<Px, y.val>>)
    ELSE Raise(ValueError, "point not on curve")

\* the uncompressed point P, checked to lie on the curve
point_checked(ec, P) ==
    IF is_on_curve(ec, P) THEN Ok(P)
    ELSE Raise(ValueError, "point not on curve")

\* point_from_octets on the bytes b of the octets
point_from_bytes(ec, b) ==
    IF b = <<>> THEN Raise(IndexError, "index out of range")
    ELSE IF b[1] \in {2, 3}
         THEN IF Len(b) # psize(ec) + 1
              THEN Raise(ValueError, "wrong byte-size for a point")
              ELSE point_from_x(from_bytes_big(Tail(b)),
                                y_odd(ec, from_bytes_big(Tail(b)), b[1] % 2))
    ELSE IF b[1] = 4
         THEN IF Len(b) # 2 * psize(ec) + 1
              THEN Raise(ValueError, "wrong byte-size for a point")
              ELSE point_checked(
                       ec,
                       <<from_bytes_big(SubSeq(b, 2, psize(ec) + 1)),
                         from_bytes_big(SubSeq(b, psize(ec) + 2, Len(b)))>>)
    ELSE Raise(ValueError, "not a point")

\* point_from_octets once bytes_from_octets has returned or raised
point_from_converted(ec, b) ==
    IF ~IsOk(b) THEN b ELSE point_from_bytes(ec, b.val)

\* point_from_octets(o, ec)
point_from_octets(ec, o) == point_from_converted(ec, bytes_from_octets(o))

(***************************************************************************)
(* Text, base64 and hash functions used by signmessage.py                  *)
(***************************************************************************)
\* a str is a sequence of code points; UTF-8 bytes of one code point
utf8_char(c) ==
    IF c < 128 THEN <<c>>
    ELSE IF c < 2048 THEN <<192 + (c \div 64), 128 + (c % 64)>>
    ELSE IF c < 65536
         THEN <<224 + (c \div 4096), 128 + ((c \div 64) % 64), 128 + (c % 64)>>
    ELSE <<240 + (c \div 262144), 128 + ((c \div 4096) % 64),
           128 + ((c \div 64) % 64), 128 + (c % 64)>>

RECURSIVE utf8_range(_, _, _)
\* the encodings of str[lo..hi], concatenated
utf8_range(str, lo, hi) ==
    IF lo > hi THEN <<>>
    ELSE IF lo = hi THEN utf8_char(str[lo])
    ELSE utf8_range(str, lo, (lo + hi) \div 2)
         \o utf8_range(str, ((lo + hi) \div 2) + 1, hi)

\* str.encode(): UTF-8, UnicodeEncodeError on a lone surrogate
str_encode(str) ==
    IF \E k \in 1..Len(str) : str[k] \in 55296..57343
    THEN Raise("UnicodeEncodeError", "surrogates not allowed")
    ELSE Ok(utf8_range(str, 1, Len(str)))

\* base64 text is a sequence of symbols: 0..63 the alphabet, 64 the pad
\* '=', 65 an ASCII character outside the alphabet
B64Pad == 64

RECURSIVE b64encode(_)
\* base64.b64encode(bs)
b64encode(bs) ==
    IF Len(bs) = 0 THEN <<>>
    ELSE IF Len(bs) = 1
         THEN <<bs[1] \div 4, (bs[1] % 4) * 16, B64Pad, B64Pad>>
    ELSE IF Len(bs) = 2
         THEN <<bs[1] \div 4, ((bs[1] % 4) * 16) + (bs[2] \div 16),
                (bs[2] % 16) * 4, B64Pad>>
    ELSE <<bs[1] \div 4, ((bs[1] % 4) * 16) + (bs[2] \div 16),
           ((bs[2] % 16) * 4) + (bs[3] \div 64), bs[3] % 64>>
         \o b64encode(SubSeq(bs, 4, Len(bs)))

RECURSIVE a2b_base64(_, _, _, _, _, _)
\* binascii.a2b_base64 (not strict): characters outside the alphabet are
\* skipped, a complete pad sequence ends the input, an incomplete last
\* quad raises binascii.Error
a2b_base64(t, k, quad_pos, pads, left, out) ==
    IF k > Len(t)
    THEN IF quad_pos # 0 THEN Raise("binascii.Error", "Incorrect padding")
         ELSE Ok(out)
    ELSE IF quad_pos = 0 /\ k + 3 <= Len(t)
            /\ \A j \in k..(k + 3) : t[j] < B64Pad
         THEN \* four characters of the alphabet at once
              a2b_base64(t, k + 4, 0, 0, 0,
                         out \o <<(t[k] * 4) + (t[k + 1] \div 16),
                                  ((t[k + 1] % 16) * 16) + (t[k + 2] \div 4),
                                  ((t[k + 2] % 4) * 64) + t[k + 3]>>)
    ELSE IF t[k] = B64Pad
         THEN IF quad_pos >= 2 /\ quad_pos + pads + 1 >= 4 THEN Ok(out)
              ELSE a2b_base64(t, k + 1, quad_pos,
                              IF quad_pos >= 2 THEN pads + 1 ELSE pads,
                              left, out)
    ELSE IF t[k] > B64Pad
         THEN a2b_base64(t, k + 1, quad_pos, pads, left, out)
    ELSE IF quad_pos = 0
         THEN a2b_base64(t, k + 1, 1, 0, t[k], out)
    ELSE IF quad_pos = 1
         THEN a2b_base64(t, k + 1, 2, 0, t[k] % 16,
                         Append(out, (left * 4) + (t[k] \div 16)))
    ELSE IF quad_pos = 2
         THEN a2b_base64(t, k + 1, 3, 0, t[k] % 4,
                         Append(out, (left * 16) + (t[k] \div 4)))
    ELSE a2b_base64(t, k + 1, 0, 0, 0, Append(out, (left * 64) + t[k]))

\* base64.b64decode(s)
b64decode(t) == a2b_base64(t, 1, 0, 0, 0, <<>>)

DigestMod == 32749

\* the digest of a concatenation from the digests l and h of its halves
digest_join(l, h) ==
    <<(l[1] * h[1]) % DigestMod, (l[2] * h[1] + h[2]) % DigestMod>>

RECURSIVE digest_range(_, _, _, _)
\* <<mul^len, sum of (bs[k] + 1) * mul^(hi - k)>> mod DigestMod over lo..hi
digest_range(bs, lo, hi, mul) ==
    IF lo > hi THEN <<1, 0>>
    ELSE IF lo = hi THEN <<mul, bs[lo] + 1>>
    ELSE digest_join(digest_range(bs, lo, (lo + hi) \div 2, mul),
                     digest_range(bs, ((lo + hi) \div 2) + 1, hi, mul))

\* the two bytes of v
two_bytes(v) == <<v \div 256, v % 256>>

\* the digest of the seed followed by the range digest d
digest_seeded(d, seed) == two_bytes((seed * d[1] + d[2]) % DigestMod)

\* the digest of bs: every byte and its position count, as does the length
digest_of(bs, mul, seed) ==
    digest_seeded(digest_range(bs, 1, Len(bs), mul), seed)

\* hf = sha256: a two-byte digest of the bytes fed
hf(bs) == digest_of(bs, 31, 7)

\* h160 = ripemd160(sha256()): a two-byte digest
h160(bs) == digest_of(bs, 37, 11)

(***************************************************************************)
(* Address codec: an address is its decoded payload                        *)
(***************************************************************************)
\* p2pkh_address(pk, network): base58check(version || h160(pk))
p2pkh_address(pk, network) ==
    [kind |-> "base58", ver |-> IF network = "mainnet" THEN 0 ELSE 111,
     prog |-> h160(pk)]

\* h160_from_address(addr): the 20-byte hash of a base58 address
h160_from_address(addr) ==
    IF addr.kind = "base58" THEN Ok(addr.prog)
    ELSE Raise(ValueError, "not a base58 address")

\* segwitaddress.decode(addr): (hrp, witness version, witness program)
segwit_decode(addr) ==
    IF addr.kind = "bech32" THEN Ok(<<"bc", addr.ver, addr.prog>>)
    ELSE Raise(ValueError, "not a bech32 address")

(***************************************************************************)
(* DSA: deterministic ECDSA and public-key recovery                        *)
(***************************************************************************)
\* the digest as an integer, reduced mod n
challenge(ec, digest) == from_bytes_big(digest) % ec.n

RECURSIVE sign_from(_, _, _, _, _)

\* the signature for nonce k if r and s are not zero, the next nonce
\* otherwise
sign_checked(ec, z, d, k, tries, r, s) ==
    IF r = 0 \/ s = 0
    THEN sign_from(ec, z, d, 1 + (k % (ec.n - 1)), tries - 1)
    ELSE Ok(<<r, s>>)

\* s = k^-1 (z + r*d) mod n for r = (k*G).x mod n
sign_with_r(ec, z, d, k, tries, r) ==
    sign_checked(ec, z, d, k, tries, r,
                 (mod_inv(k, ec.n).val * (z + r * d)) % ec.n)

\* try nonce k, then k+1, ... until r # 0 and s # 0
sign_from(ec, z, d, k, tries) ==
    IF tries = 0 THEN Raise(ValueError, "no valid nonce")
    ELSE sign_with_r(ec, z, d, k, tries, mult(ec, k, ec.G)[1] % ec.n)

\* sign(ec, hf, digest, prvkey): (r, s), both in [1, n-1]
sign(ec, digest, d) ==
    IF d \notin 1..(ec.n - 1)
    THEN Raise(ValueError, "private key not in [1, n-1]")
    ELSE sign_from(ec, challenge(ec, digest), d,
                   1 + (from_bytes_big(hf(<<d>> \o digest)) % (ec.n - 1)),
                   ec.n - 1)

\* a slot of the recovery result that holds no key
NoKey == <<0>>

\* Q = r^-1 (s*R - z*G) for R = (x, y), no key when x has no such y
recovered_from(ec, z, r, s, x, y) ==
    IF ~IsOk(y) THEN NoKey
    ELSE mult(ec, mod_inv(r, ec.n).val,
              add(ec, mult(ec, s, <<x, y.val>>),
                  opposite(ec, mult(ec, z, ec.G))))

\* the candidate of index key_id: x = r + (key_id div 2)*n, y of parity
\* key_id mod 2
recovered_key(ec, z, r, s, key_id) ==
    recovered_from(ec, z, r, s, r + (key_id \div 2) * ec.n,
                   y_odd(ec, r + (key_id \div 2) * ec.n, key_id % 2))

\* pubkey_recovery(ec, hf, digest, (r, s)): the four candidates
pubkey_recovery(ec, digest, sig) ==
    IF sig[1] \notin 1..(ec.n - 1) \/ sig[2] \notin 1..(ec.n - 1)
    THEN Raise(ValueError, "signature not in [1, n-1]")
    ELSE Ok([k \in 1..4 |->
               recovered_key(ec, challenge(ec, digest), sig[1], sig[2],
                             k - 1)])

(***************************************************************************)
(* signmessage.py                                                          *)
(***************************************************************************)
\* b'\x18Bitcoin Signed Message:\n'
magic_prefix ==
    <<24, 66, 105, 116, 99, 111, 105, 110, 32, 83, 105, 103, 110, 101, 100,
      32, 77, 101, 115, 115, 97, 103, 101, 58, 10>>

\* the prefix followed by the encoded message, or the error of encode()
magic_prefixed(message) ==
    IF IsOk(message) THEN Ok(magic_prefix \o message.val) ELSE message

\* the bytes _magic_hash feeds to the hash: prefix, then the encoding of
\* chr(len(msg)) + msg
magic_input(msg) == magic_prefixed(str_encode(<<Len(msg)>> \o msg))

\* the digest of the bytes fed
magic_digest(fed) == IF IsOk(fed) THEN Ok(hf(fed.val)) ELSE fed

\* _magic_hash(msg)
_magic_hash(msg) == magic_digest(magic_input(msg))

\* octets_from_point(ec, P, compressed)
octets_from_point(ec, P, compressed) == bytes_from_point(ec, P, compressed)

\* the indexes i of range(len(pubkeys)) with pubkeys[i] == pubkey
matching(pubkeys, pubkey) ==
    {i \in 0..(Len(pubkeys) - 1) : pubkeys[i + 1] = pubkey}

Least(S) == CHOOSE i \in S : \A j \in S : i <= j

\* msgsign with the compression bit written as 2
msgsign_flag(i, compressed) == 27 + i + (IF compressed THEN 2 ELSE 0)

\* rf = 27 + i; if compressed: rf += 4
recovery_flag(i, compressed) == 27 + i + (IF compressed THEN 4 ELSE 0)

\* the local variables of msgsign and, in ret, what it returns or raises
SignFrame(pubkey, pk, fed, magic_msg, sig, pubkeys, ret) ==
    [pubkey |-> pubkey, pk |-> pk, fed |-> fed, magic_msg |-> magic_msg,
     sig |-> sig, pubkeys |-> pubkeys, ret |-> ret]

\* the error msgsign raises when its loop ends without a match
not_recovered == Raise(ValueError, "Public key not recovered")

\* msgsign from line 179: the signature bytes and the loop over pubkeys
msgsign_recovered(compressed, network, pubkey, pk, fed, magic_msg, sig, keys) ==
    SignFrame(pubkey, pk, fed, magic_msg, sig, keys,
        IF ~IsOk(keys) THEN keys
        ELSE IF matching(keys.val, pubkey) = {}
             THEN not_recovered
        ELSE Ok(<<p2pkh_address(pk.val, network),
                  b64encode(<<recovery_flag(Least(matching(keys.val,
                                                           pubkey)),
                                            compressed)>>
                            \o to_bytes_big(sig.val[1], 32)
                            \o to_bytes_big(sig.val[2], 32))>>))

\* msgsign from line 178: pubkey_recovery
msgsign_signed(compressed, network, pubkey, pk, fed, magic_msg, sig) ==
    IF ~IsOk(sig)
    THEN SignFrame(pubkey, pk, fed, magic_msg, sig, None, sig)
    ELSE msgsign_recovered(compressed, network, pubkey, pk, fed, magic_msg,
                           sig,
                           pubkey_recovery(secp256k1, magic_msg.val,
                                           sig.val))

\* msgsign from line 176: sign
msgsign_hashed(prvkey, compressed, network, pubkey, pk, fed, magic_msg) ==
    IF ~IsOk(magic_msg)
    THEN SignFrame(pubkey, pk, fed, magic_msg, None, None, magic_msg)
    ELSE msgsign_signed(compressed, network, pubkey, pk, fed, magic_msg,
                        sign(secp256k1, magic_msg.val, prvkey))

\* msgsign from line 175: _magic_hash
msgsign_encoded(msg, prvkey, compressed, network, pubkey, pk) ==
    IF ~IsOk(pk) THEN SignFrame(pubkey, pk, None, None, None, None, pk)
    ELSE msgsign_hashed(prvkey, compressed, network, pubkey, pk,
                        magic_input(msg), _magic_hash(msg))

\* msgsign from line 172: octets_from_point
msgsign_keyed(msg, prvkey, compressed, network, pubkey) ==
    msgsign_encoded(msg, prvkey, compressed, network, pubkey,
                    octets_from_point(secp256k1, pubkey, compressed))

\* msgsign run to its end: its local variables and its outcome
msgsign_locals(msg, prvkey, compressed, network) ==
    msgsign_keyed(msg, prvkey, compressed, network,
                  mult(secp256k1, prvkey, secp256k1.G))

\* msgsign(msg, prvkey, compressed, network): (address, signature)
msgsign(msg, prvkey, compressed, network) ==
    msgsign_locals(msg, prvkey, compressed, network).ret

\* the length test accepting anything of 65 bytes or more
wrong_length_short(dsig) == Len(dsig) < 65

\* len(sig) != 65
wrong_length(dsig) == Len(dsig) # 65

\* the index without the branch for compressed keys
key_index_uncompressed(rf) == rf - 27

\* i = rf - 27 for an uncompressed key, rf - 31 otherwise
key_index(rf) == IF rf < 31 THEN rf - 27 ELSE rf - 31

\* h160(pk) == h160_from_address(addr), or the error of the decoding
compare_p2pkh(h, a) == IF IsOk(a) THEN Ok(h = a.val) ELSE a

\* h160(pk) == bytes(wp) for witness version 0
compare_p2wpkh(h, d) ==
    IF ~IsOk(d) THEN d
    ELSE IF d.val[2] # 0 THEN Raise(ValueError, "Invalid witness version")
    ELSE Ok(h = d.val[3])

\* the comparison of _verify for the key bytes pk, recovery flag rf >= 27
compare_address(rf, pk, addr) ==
    IF rf < 35 THEN compare_p2pkh(h160(pk), h160_from_address(addr))
    ELSE IF rf < 38 THEN compare_p2wpkh(h160(pk), segwit_decode(addr))
    ELSE IF rf < 42
         THEN compare_p2pkh(h160(<<0, 20>> \o h160(pk)),
                            h160_from_address(addr))
    ELSE Raise(ValueError, "Invalid recovery flag")

\* the local variables of _verify and, in ret, what it returns or raises;
\* rf and i are -1 until the statement that sets them has run
VerifyFrame(sig, magic_msg, pubkeys, rf, i, pk, ret) ==
    [sig |-> sig, magic_msg |-> magic_msg, pubkeys |-> pubkeys, rf |-> rf,
     i |-> i, pk |-> pk, ret |-> ret]

\* _verify from line 227: the comparison with the address
verify_encoded(addr, sig, magic_msg, pubkeys, rf, i, pk) ==
    VerifyFrame(sig, magic_msg, pubkeys, rf, i, pk,
                IF ~IsOk(pk) THEN pk ELSE compare_address(rf, pk.val, addr))

\* _verify from line 220: pubkeys[i] and octets_from_point
verify_indexed(addr, sig, magic_msg, pubkeys, rf, i) ==
    IF i >= Len(pubkeys.val)
    THEN VerifyFrame(sig, magic_msg, pubkeys, rf, i, None,
                     Raise(IndexError, "list index out of range"))
    ELSE verify_encoded(addr, sig, magic_msg, pubkeys, rf, i,
                        octets_from_point(secp256k1, pubkeys.val[i + 1],
                                          rf >= 31))

\* _verify from line 217 without the test of line 218: a flag below 27
\* gives a negative index, which counts from the end of the list
verify_recovered_unchecked(addr, sig, magic_msg, pubkeys) ==
    IF ~IsOk(pubkeys)
    THEN VerifyFrame(sig, magic_msg, pubkeys, -1, -1, None, pubkeys)
    ELSE IF sig.val[1] >= 27
         THEN verify_indexed(addr, sig, magic_msg, pubkeys, sig.val[1],
                             key_index(sig.val[1]))
    ELSE IF sig.val[1] - 27 < 0 - Len(pubkeys.val)
         THEN VerifyFrame(sig, magic_msg, pubkeys, sig.val[1],
                          sig.val[1] - 27, None,
                          Raise(IndexError, "list index out of range"))
    ELSE verify_encoded(addr, sig, magic_msg, pubkeys, sig.val[1],
                        sig.val[1] - 27,
                        octets_from_point(
                            secp256k1,
                            pubkeys.val[Len(pubkeys.val) + sig.val[1] - 26],
                            FALSE))

\* _verify from line 217: the recovery flag
verify_recovered(addr, sig, magic_msg, pubkeys) ==
    IF ~IsOk(pubkeys)
    THEN VerifyFrame(sig, magic_msg, pubkeys, -1, -1, None, pubkeys)
    ELSE IF sig.val[1] < 27
         THEN VerifyFrame(sig, magic_msg, pubkeys, sig.val[1], -1, None,
                          Raise(ValueError, "Invalid recovery flag"))
    ELSE verify_indexed(addr, sig, magic_msg, pubkeys, sig.val[1],
                        key_index(sig.val[1]))

\* _verify from line 213: pubkey_recovery
verify_hashed(addr, sig, magic_msg) ==
    IF ~IsOk(magic_msg)
    THEN VerifyFrame(sig, magic_msg, None, -1, -1, None, magic_msg)
    ELSE verify_recovered(
             addr, sig, magic_msg,
             pubkey_recovery(secp256k1, magic_msg.val,
                             <<from_bytes_big(SubSeq(sig.val, 2, 33)),
                               from_bytes_big(SubSeq(sig.val, 34, 65))>>))

\* _verify from line 207: the length test, r, s and _magic_hash
verify_decoded(msg, addr, sig) ==
    IF ~IsOk(sig) THEN VerifyFrame(sig, None, None, -1, -1, None, sig)
    ELSE IF wrong_length(sig.val)
         THEN VerifyFrame(sig, None, None, -1, -1, None,
                          Raise(ValueError, "Wrong encoding length"))
    ELSE verify_hashed(addr, sig, _magic_hash(msg))

\* _verify run to its end: its local variables and its outcome
_verify_locals(msg, addr, sig) == verify_decoded(msg, addr, b64decode(sig))

\* _verify(msg, addr, sig): True, False or the error raised
_verify(msg, addr, sig) == _verify_locals(msg, addr, sig).ret

\* try: return res; except Exception: return False
except_false(res) == IF IsOk(res) THEN res.val ELSE FALSE

\* verify that lets the error through as a true value
verify_truthy(msg, addr, sig) == ~except_false(_verify(msg, addr, sig))

\* verify(msg, addr, sig): the try/except wrapper of _verify
verify(msg, addr, sig) == except_false(_verify(msg, addr, sig))

(***************************************************************************)
(* Inputs                                                                  *)
(***************************************************************************)
\* integers around every boundary of the varint layout, 0 .. 2^65 - 1
VarintInputs ==
    { <<l1, l2, l3, l4, l5>> :
        l1 \in {0, 1, 252, 253, 255, 256, 65534, 65535},
        l2 \in {0, 1, 65535},
        l3 \in {0, 65535},
        l4 \in {0, 1, 65535},
        l5 \in {0, 1} }

\* longest message signed
MaxMsgLen == 255

\* the message of len characters c
Msg(len, c) == [k \in 1..len |-> c]

\* "", "Hi", 127, 128 and MaxMsgLen times "a", an accented letter, a lone
\* surrogate
Messages ==
    {Msg(0, 97), <<72, 105>>, Msg(127, 97), Msg(128, 97), Msg(MaxMsgLen, 97),
     <<233>>, <<55296>>}

\* private keys 0 (invalid) and 1 .. n-1
PrvKeys == 0..(secp256k1.n - 1)

\* the keys whose signatures a verifier also receives altered, and that
\* sign every message
MaxAlteredKey == 3

SignInputs ==
    (PrvKeys \X {<<72, 105>>} \X BOOLEAN \X {"mainnet", "testnet"})
    \cup ((0..MaxAlteredKey) \cup {secp256k1.n - 1})
          \X Messages \X BOOLEAN \X {"mainnet"}

\* recovery flags tried by a verifier
Flags == {0, 26} \cup (27..43) \cup {255}

\* the addresses of a public key of encodings upk and cpk: P2PKH of both
\* encodings, P2WPKH-P2SH, P2WPKH with witness versions 0 and 1, and no
\* address
AddressesFor(upk, cpk, network) ==
    {p2pkh_address(upk, network), p2pkh_address(cpk, network),
     [kind |-> "base58", ver |-> 5, prog |-> h160(<<0, 20>> \o h160(cpk))],
     [kind |-> "bech32", ver |-> 0, prog |-> h160(cpk)],
     [kind |-> "bech32", ver |-> 1, prog |-> h160(cpk)],
     [kind |-> "invalid", ver |-> 0, prog |-> <<>>]}

\* the addresses of the public key P
AddressesOf(P, network) ==
    AddressesFor(octets_from_point(secp256k1, P, FALSE).val,
                 octets_from_point(secp256k1, P, TRUE).val, network)

\* signatures derived from the text t of a signature of bytes b: every flag,
\* one byte less and one more, r = 0, a missing last character, a leading
\* character outside the alphabet
SignaturesFrom(t, b) ==
    {b64encode(<<f>> \o Tail(b)) : f \in Flags}
    \cup {b64encode(<<f>> \o [k \in 1..32 |-> 0] \o SubSeq(b, 34, 65)) :
             f \in {26, 27}}
    \cup {b64encode(SubSeq(b, 1, 64)), b64encode(b \o <<0>>),
          SubSeq(t, 1, Len(t) - 1), <<65>> \o t}

\* the signatures derived from the base64 text t
SignaturesOf(t) == SignaturesFrom(t, b64decode(t).val)

\* what a verifier is handed after msgsign returned (address, t) for msg
VerifyInputs(msg, prvkey, network, address, t) ==
    {<<msg, address, t>>}
    \cup (IF prvkey > MaxAlteredKey THEN {}
          ELSE ({msg}
                \X AddressesOf(mult(secp256k1, prvkey, secp256k1.G), network)
                \X SignaturesOf(t))
               \cup {<<(<<72, 105, 33>>), address, t>>})

\* largest scalar tried besides n-1 and n
MaxScalar == 25

MultScalars(ec) == (0..MaxScalar) \cup {ec.n - 1, ec.n}

\* G, INF and "just a random point" mult(p)
MultPoints(ec) == {ec.G, INF, mult(ec, ec.p % ec.n, ec.G)}

\* the operands of the additions: INF and every point of a curve with
\* one-byte coordinates, INF and the first multiples of G otherwise
AddPoints(ec) ==
    IF psize(ec) = 1 THEN Points(ec) \cup {INF}
    ELSE {mult(ec, k, ec.G) : k \in 0..MaxScalar}
         \cup {opposite(ec, mult(ec, k, ec.G)) : k \in 0..MaxScalar}

\* most integers written to one stream
MaxStream == 3

\* integers of every varint layout, at the boundaries of each, 0 .. 2^64-1
StreamInts ==
    {Small(0), Small(252), Small(253), AllOnes(1), <<0, 1, 0, 0, 0>>,
     AllOnes(2), <<0, 0, 1, 0, 0>>, AllOnes(4)}

\* the sequences of at most MaxStream integers
StreamInputs ==
    UNION {[1..len -> StreamInts] : len \in 0..MaxStream}

(***************************************************************************)
(* State machine                                                           *)
(***************************************************************************)
Init ==
    /\ op = "idle"
    /\ vint = None
    /\ venc = None
    /\ stream = None
    /\ vdec = None
    /\ cv = None
    /\ pc = None
    /\ signed = None
    /\ vcall = None
    /\ jv = None
    /\ vs = None

\* a call of varint.encode(i)
VarintEncode ==
    \E i \in VarintInputs :
        /\ op = "idle"
        /\ op' = "encode"
        /\ vint' = i
        /\ venc' = encode(i)
        /\ stream' = None
        /\ vdec' = None
        /\ UNCHANGED <<cv, pc, signed, vcall, jv, vs>>

\* a call of varint.decode(b) on the bytes the last encode returned
VarintDecode ==
    /\ op = "encode"
    /\ IsOk(venc)
    /\ op' = "decode"
    /\ vdec' = decode(BytesIO(venc.val)).ret
    /\ stream' = decode(BytesIO(venc.val)).st
    /\ UNCHANGED <<vint, venc, cv, pc, signed, vcall, jv, vs>>

\* a call of ec.mult(k, P)
CurveMult ==
    \E ec \in all_curves :
      \E k \in MultScalars(ec), P \in MultPoints(ec) :
        /\ op = "idle"
        /\ op' = "mult"
        /\ cv' = [ec |-> ec, k |-> k, P |-> P, R |-> mult(ec, k, P),
                  sum |-> None]
        /\ UNCHANGED <<vint, venc, stream, vdec, pc, signed, vcall, jv, vs>>

\* a call of ec.add(R, ec.G) on the point R the last mult returned
CurveAdd ==
    /\ op = "mult"
    /\ op' = "add"
    /\ cv' = [cv EXCEPT !.sum = add(cv.ec, cv.R, cv.ec.G)]
    /\ UNCHANGED <<vint, venc, stream, vdec, pc, signed, vcall, jv, vs>>

\* a call of bytes_from_point(P, compressed, ec); the caller keeps the
\* bytes or their hexadecimal string
PointEncode ==
    \E ec \in all_curves :
      \E P \in Points(ec), compressed \in BOOLEAN, form \in {"bytes", "str"} :
        /\ op = "idle"
        /\ op' = "bytes_from_point"
        /\ pc' = LET e == bytes_from_point(ec, P, compressed)
                 IN  [ec |-> ec, P |-> P, compressed |-> compressed,
                      enc |-> e,
                      octets |-> IF ~IsOk(e) THEN None
                                 ELSE IF form = "str" THEN HexStr(hex(e.val))
                                 ELSE Bytes(e.val),
                      dec |-> None, re |-> None]
        /\ UNCHANGED <<vint, venc, stream, vdec, cv, signed, vcall, jv, vs>>

\* a call of point_from_octets(octets, ec) on the octets kept, and of
\* bytes_from_point on its result
PointDecode ==
    /\ op = "bytes_from_point"
    /\ IsOk(pc.enc)
    /\ op' = "point_from_octets"
    /\ pc' = LET d == point_from_octets(pc.ec, pc.octets)
             IN  [pc EXCEPT !.dec = d,
                            !.re = IF IsOk(d)
                                   THEN bytes_from_point(pc.ec, d.val,
                                                         pc.compressed)
                                   ELSE None]
    /\ UNCHANGED <<vint, venc, stream, vdec, cv, signed, vcall, jv, vs>>

\* a call of msgsign(msg, prvkey, compressed, network)
MsgSign ==
    \E inp \in SignInputs :
        /\ op = "idle"
        /\ op' = "msgsign"
        /\ signed' = [msg |-> inp[2], prvkey |-> inp[1],
                      compressed |-> inp[3], network |-> inp[4],
                      locals |-> msgsign_locals(inp[2], inp[1], inp[3],
                                                inp[4]),
                      ret |-> msgsign(inp[2], inp[1], inp[3], inp[4])]
        /\ UNCHANGED <<vint, venc, stream, vdec, cv, pc, vcall, jv, vs>>

\* a call of verify(msg, addr, sig) by somebody who holds what msgsign
\* returned and may have altered it
Verify ==
    /\ op = "msgsign"
    /\ IsOk(signed.ret)
    /\ \E inp \in VerifyInputs(signed.msg, signed.prvkey, signed.network,
                                signed.ret.val[1], signed.ret.val[2]) :
        /\ op' = "verify"
        /\ vcall' = [msg |-> inp[1], addr |-> inp[2], sig |-> inp[3],
                     locals |-> _verify_locals(inp[1], inp[2], inp[3]),
                     ret |-> verify(inp[1], inp[2], inp[3])]
    /\ UNCHANGED <<vint, venc, stream, vdec, cv, pc, signed, jv, vs>>

\* the sum of Q and R computed three ways: _add_aff, _add_jac on the
\* Jacobian operands QJ and RJ, and the latter brought back to affine
JacSums(ec, Q, R, QJ, RJ) ==
    [ec |-> ec, Q |-> Q, R |-> R, QJ |-> QJ, RJ |-> RJ,
     checkQ |-> _aff_from_jac(ec, _jac_from_aff(Q)),
     Q3 |-> _add_aff(ec, Q, R),
     Q3jac |-> _add_jac(ec, QJ, RJ),
     Q3back |-> _aff_from_jac(ec, _add_jac(ec, QJ, RJ))]

\* Q3 = ec._add_aff(Q, R); Q3jac = ec._add_jac(_jac_from_aff(Q),
\* _jac_from_aff(R)), as test_add calls them
JacAdd ==
    \E ec \in all_curves :
      \E Q \in AddPoints(ec), R \in AddPoints(ec) :
        /\ op = "idle"
        /\ op' = "add_jac"
        /\ jv' = JacSums(ec, Q, R, _jac_from_aff(Q), _jac_from_aff(R))
        /\ UNCHANGED <<vint, venc, stream, vdec, cv, pc, signed, vcall, vs>>

\* the same calls on the sum just computed, R added once more: the
\* Jacobian operand is now the triple _add_jac returned
JacAddAgain ==
    /\ op = "add_jac"
    /\ op' = "add_jac_again"
    /\ jv' = JacSums(jv.ec, jv.Q3, jv.R, jv.Q3jac, jv.RJ)
    /\ UNCHANGED <<vint, venc, stream, vdec, cv, pc, signed, vcall, vs>>

\* a caller opens a stream on the concatenation of the encodings of ints
VarintStreamOpen ==
    \E ints \in StreamInputs :
        /\ op = "idle"
        /\ op' = "stream"
        /\ vs' = [ints |-> ints, st |-> BytesIO(encode_all(ints)),
                  rets |-> <<>>]
        /\ UNCHANGED <<vint, venc, stream, vdec, cv, pc, signed, vcall, jv>>

\* one more call of varint.decode(stream) on the open stream; the caller
\* calls once for each integer written, and once more at the end
VarintStreamDecode ==
    /\ op = "stream"
    /\ Len(vs.rets) <= Len(vs.ints)
    /\ vs' = [vs EXCEPT !.st = decode(vs.st).st,
                        !.rets = Append(@, decode(vs.st).ret)]
    /\ UNCHANGED <<op, vint, venc, stream, vdec, cv, pc, signed, vcall, jv>>

\* the call returns to its caller; the module keeps no state between calls
Return ==
    /\ op # "idle"
    /\ op' = "idle"
    /\ vint' = None
    /\ venc' = None
    /\ stream' = None
    /\ vdec' = None
    /\ cv' = None
    /\ pc' = None
    /\ signed' = None
    /\ vcall' = None
    /\ jv' = None
    /\ vs' = None

Next ==
    \/ VarintEncode
    \/ VarintDecode
    \/ CurveMult
    \/ CurveAdd
    \/ PointEncode
    \/ PointDecode
    \/ MsgSign
    \/ Verify
    \/ JacAdd
    \/ JacAddAgain
    \/ VarintStreamOpen
    \/ VarintStreamDecode
    \/ Return

Spec == Init /\ [][Next]_vars

(***************************************************************************)
(* Claims                                                                  *)
(***************************************************************************)
\* bs holds the nl low limbs of i, least significant byte first
LittleEndianOf(bs, i, nl) ==
    /\ Len(bs) = 2 * nl
    /\ \A k \in 1..nl : bs[2 * k - 1] + 256 * bs[2 * k] = i[k]

\* C10: for every integer i in 0 .. 2^64-1, decode(encode(i)) = i, and
\* encode(i) is the single byte i for i <= 0xfc, 0xfd and 2 little-endian
\* bytes for i <= 0xffff, 0xfe and 4 little-endian bytes for
\* i <= 0xffffffff, 0xff and 8 little-endian bytes otherwise; encode raises
\* ValueError for i > 2^64-1.
C10_VarintRoundTrip ==
    /\ (op \in {"encode", "decode"} /\ vint[5] > 0) =>
            venc.err = ValueError
    /\ (op \in {"encode", "decode"} /\ vint[5] = 0) =>
        /\ IsOk(venc)
        /\ LET hi == {k \in 1..4 : vint[k] # 0}
               b  == venc.val
           IN  IF hi = {} \/ (hi = {1} /\ vint[1] <= 252)
                 THEN b = <<vint[1]>>
               ELSE IF hi = {1}
                 THEN b[1] = 253 /\ LittleEndianOf(Tail(b), vint, 1)
               ELSE IF hi \subseteq {1, 2}
                 THEN b[1] = 254 /\ LittleEndianOf(Tail(b), vint, 2)
               ELSE b[1] = 255 /\ LittleEndianOf(Tail(b), vint, 4)
    /\ op = "decode" => IsOk(vdec) /\ vdec.val = vint

\* a nine-byte varint has been encoded and decoded back
C10_Witness ==
    /\ op = "decode"
    /\ Len(venc.val) = 9
    /\ IsOk(vdec)
    /\ vdec.val = vint

\* C8: for every curve, mult(0) = Infinity, mult(1) = G,
\* add(G, G) = mult(2), add(mult(n-1), G) = Infinity, mult(n) = Infinity,
\* and mult(k, Infinity) = Infinity for every scalar k.
C8_MultIdentities ==
    /\ op \in {"mult", "add"} =>
        /\ cv.P = INF => cv.R = INF
        /\ (cv.P = cv.ec.G /\ cv.k = 0) => cv.R = INF
        /\ (cv.P = cv.ec.G /\ cv.k = 1) => cv.R = cv.ec.G
        /\ (cv.P = cv.ec.G /\ cv.k = cv.ec.n) => cv.R = INF
    /\ (op = "add" /\ cv.P = cv.ec.G) =>
        /\ cv.k = 1 => cv.sum = mult(cv.ec, 2, cv.ec.G)
        /\ cv.k = cv.ec.n - 1 => cv.sum = INF

\* G has been added to mult(n-1) on the two-byte curve, giving Infinity
C8_Witness ==
    /\ op = "add"
    /\ cv.ec = ec283_277
    /\ cv.P = cv.ec.G
    /\ cv.k = cv.ec.n - 1
    /\ cv.R # INF
    /\ cv.sum = INF

\* C9: for every curve and finite on-curve point P, decoding the encoding
\* of P gives P in compressed and uncompressed mode, from bytes and from
\* the hex string; re-encoding the decoded point gives the encoding back;
\* the compressed prefix is 0x03 for odd y and 0x02 for even y.
C9_PointCodecRoundTrip ==
    /\ op \in {"bytes_from_point", "point_from_octets"} =>
        /\ IsOk(pc.enc)
        /\ pc.compressed =>
              pc.enc.val[1] = (IF pc.P[2] % 2 = 1 THEN 3 ELSE 2)
    /\ op = "point_from_octets" =>
        /\ IsOk(pc.dec)
        /\ pc.dec.val = pc.P
        /\ IsOk(pc.re)
        /\ pc.re.val = pc.enc.val

\* a compressed point with odd y and a two-byte x has been decoded from
\* its hex string
C9_Witness ==
    /\ op = "point_from_octets"
    /\ pc.compressed
    /\ pc.octets.kind = "str"
    /\ pc.P[1] > 255
    /\ pc.P[2] % 2 = 1
    /\ pc.dec = Ok(pc.P)

\* C1: verify never raises and returns a boolean; it returns True exactly
\* when _verify returns True, and False when _verify returns False or
\* raises any error.
C1_VerifyTotal ==
    op = "verify" =>
        /\ vcall.ret \in BOOLEAN
        /\ vcall.ret = (IsOk(vcall.locals.ret) /\ vcall.locals.ret.val)

\* _verify raised IndexError on an out-of-range candidate index and verify
\* returned False
C1_Witness ==
    /\ op = "verify"
    /\ vcall.locals.ret.err = IndexError
    /\ vcall.ret = FALSE

\* the verifier was handed exactly what msgsign returned, for its message
Honest ==
    /\ op = "verify"
    /\ vcall.msg = signed.msg
    /\ vcall.addr = signed.ret.val[1]
    /\ vcall.sig = signed.ret.val[2]

\* C2: if (address, sig) = msgsign(msg, prvkey, compressed, network) for a
\* private key in [1, n-1] and a message shorter than 256 characters, then
\* verify(msg, address, sig) returns True.
C2_SignVerifyRoundTrip ==
    (Honest /\ signed.prvkey \in 1..(secp256k1.n - 1)
            /\ Len(signed.msg) < 256)
        => vcall.ret = TRUE

\* a compressed signature of a 255-character message whose key is the
\* candidate of index 1 has been verified
C2_Witness ==
    /\ Honest
    /\ signed.compressed
    /\ Len(signed.msg) = 255
    /\ vcall.locals.rf = 32
    /\ vcall.ret = TRUE

\* the key index of a recovery flag in the documented table
TableKeyId(rf) == (rf - 27) % 4

\* the comparison the documented table asks for: the identity of the
\* address type of flag rf, derived from the key K, against the address
TableMatch(rf, K, addr) ==
    LET upk == octets_from_point(secp256k1, K, FALSE).val
        cpk == octets_from_point(secp256k1, K, TRUE).val
    IN  IF rf <= 30 THEN addr.kind = "base58" /\ addr.prog = h160(upk)
        ELSE IF rf <= 34 THEN addr.kind = "base58" /\ addr.prog = h160(cpk)
        ELSE IF rf <= 38
             THEN /\ addr.kind = "base58"
                  /\ addr.prog = h160(<<0, 20>> \o h160(cpk))
        ELSE addr.kind = "bech32" /\ addr.ver = 0 /\ addr.prog = h160(cpk)

\* _verify has recovered the candidates of a 65-byte signature whose flag
\* is in [27, 42], and the candidate the table selects is a key
TableCase ==
    /\ op = "verify"
    /\ vcall.locals.rf \in 27..42
    /\ vcall.locals.pubkeys.val[TableKeyId(vcall.locals.rf) + 1] # NoKey
    /\ vcall.locals.pubkeys.val[TableKeyId(vcall.locals.rf) + 1] # INF

\* C3: for every flag in [27, 42] verification compares the recovered key
\* against the identity of the address type of the table: 27-30 P2PKH of
\* the uncompressed key, 31-34 P2PKH of the compressed key, 35-38
\* P2WPKH-P2SH, 39-42 P2WPKH bech32 with witness version 0.
C3_AddressTypePerFlag ==
    TableCase =>
        vcall.ret = TableMatch(vcall.locals.rf,
                               vcall.locals.pubkeys.val[
                                   TableKeyId(vcall.locals.rf) + 1],
                               vcall.addr)

\* the part of C3 about the P2PKH flags 27 .. 34
C3_P2PKHFlags ==
    (TableCase /\ vcall.locals.rf <= 34) => C3_AddressTypePerFlag

\* C4: for every flag in [27, 42] the candidate selected has index
\* flag-27, flag-31, flag-35, flag-39 according to the range of the flag,
\* so the index is in [0, 3] and never past the candidate array.
C4_KeyIndexPerFlag ==
    (op = "verify" /\ vcall.locals.rf \in 27..42) =>
        /\ vcall.locals.i = TableKeyId(vcall.locals.rf)
        /\ vcall.locals.i \in 0..3
        /\ vcall.locals.ret.err # IndexError

\* C5: verify returns False, and _verify raises, when the decoded
\* signature is not exactly 65 bytes long, when its flag byte is below 27
\* and when it is 43 or above.
C5_RejectOutOfFormat ==
    (/\ op = "verify"
     /\ IsOk(vcall.locals.sig)
     /\ \/ Len(vcall.locals.sig.val) # 65
        \/ vcall.locals.sig.val[1] < 27
        \/ vcall.locals.sig.val[1] >= 43)
        => (vcall.ret = FALSE /\ ~IsOk(vcall.locals.ret))

\* a 66-byte signature has been rejected for its length
C5_Witness ==
    /\ op = "verify"
    /\ IsOk(vcall.locals.sig)
    /\ Len(vcall.locals.sig.val) = 66
    /\ vcall.locals.ret.err = ValueError
    /\ vcall.ret = FALSE

\* C6: whenever msgsign returns, the decoded signature is 65 bytes: the
\* flag 27 + key_id + (4 if compressed), then r and s as 32-byte
\* big-endian integers, key_id being the first index of the recovered
\* candidates that holds prvkey*G; the flag is in [27, 30] uncompressed
\* and in [31, 34] compressed.
C6_SignaturePacking ==
    (op \in {"msgsign", "verify"} /\ IsOk(signed.ret)) =>
        LET b == b64decode(signed.ret.val[2])
            cands == signed.locals.pubkeys.val
            Q == mult(secp256k1, signed.prvkey, secp256k1.G)
            key_id == b.val[1] - (IF signed.compressed THEN 31 ELSE 27)
        IN  /\ IsOk(b)
            /\ Len(b.val) = 65
            /\ key_id \in 0..3
            /\ cands[key_id + 1] = Q
            /\ \A j \in 1..key_id : cands[j] # Q
            /\ \A k \in 2..65 : k \notin {33, 65} => b.val[k] = 0
            /\ b.val[33] = signed.locals.sig.val[1]
            /\ b.val[65] = signed.locals.sig.val[2]

\* msgsign has returned a compressed signature whose key is the candidate
\* of index 3
C6_Witness ==
    /\ op = "msgsign"
    /\ IsOk(signed.ret)
    /\ signed.compressed
    /\ b64decode(signed.ret.val[2]).val[1] = 34

\* C7: for every message of at most 255 characters the bytes fed to the
\* hash are the header, one byte holding the message length, and the
\* message bytes.
C7_MagicHashInput ==
    (op = "msgsign" /\ IsOk(signed.locals.fed) /\ Len(signed.msg) <= 255)
        => signed.locals.fed.val
             = magic_prefix \o <<Len(signed.msg)>>
                            \o str_encode(signed.msg).val

\* the errors _verify raises for what the user supplied: a signature of the
\* wrong length, an invalid recovery flag, an invalid witness version
UserInputErrors ==
    {"Wrong encoding length", "Invalid recovery flag",
     "Invalid witness version"}

\* C11: when no recovered candidate equals the true public key, msgsign
\* returns no (address, signature) pair but raises its error, and the kind
\* of that error is not the kind _verify raises for user-input errors.
C11_InternalInvariantError ==
    /\ (/\ op = "msgsign"
        /\ IsOk(signed.locals.pubkeys)
        /\ matching(signed.locals.pubkeys.val, signed.locals.pubkey) = {})
           => signed.ret = not_recovered
    /\ (/\ op = "verify"
        /\ ~IsOk(vcall.locals.ret)
        /\ vcall.locals.ret.what \in UserInputErrors)
           => vcall.locals.ret.err # not_recovered.err

C13_AffineJacobianAgree ==
    (op \in {"add_jac", "add_jac_again"}) =>
        /\ jv.Q3back = jv.Q3
        /\ jv.checkQ = jv.Q
        /\ is_on_curve(jv.ec, jv.Q3back)
        /\ jv.Q = INF => jv.Q3back = jv.R
        /\ jv.R = INF => jv.Q3back = jv.Q
        /\ (jv.Q # INF /\ jv.R = opposite(jv.ec, jv.Q))
              => (jv.Q3back = INF /\ jv.Q3jac[3] = 0)
        /\ (jv.Q # INF /\ jv.R # INF /\ jv.R # opposite(jv.ec, jv.Q))
              => (jv.Q3back # INF /\ jv.Q3jac[3] # 0)

\* a point of a curve with a # 0 has been doubled in Jacobian
\* coordinates, and the double, with Z # 1, added to the point again
C13_Witness ==
    /\ op = "add_jac_again"
    /\ jv.ec.a # 0
    /\ jv.R # INF
    /\ jv.Q3jac[3] > 1
    /\ jv.QJ[3] > 1
    /\ jv.QJ = _add_jac(jv.ec, _jac_from_aff(jv.R), _jac_from_aff(jv.R))
    /\ jv.Q3back = mult(jv.ec, 3, jv.R)

RECURSIVE EncodedLen(_, _)
\* the bytes of the encodings of the first k integers of ints
EncodedLen(ints, k) ==
    IF k = 0 THEN 0
    ELSE EncodedLen(ints, k - 1) + Len(encode(ints[k]).val)

\* the bytes of a varint whose first byte is b
LayoutLen(b) ==
    IF b = 253 THEN 3 ELSE IF b = 254 THEN 5 ELSE IF b = 255 THEN 9 ELSE 1

\* C14: on a stream holding the encodings of a sequence of integers of
\* 0 .. 2^64-1, each call of decode returns the next integer and consumes
\* the 1, 3, 5 or 9 bytes of its encoding, according to the first byte,
\* and nothing more; after the last integer the stream is exhausted.
C14_StreamDecode ==
    (op = "stream") =>
        /\ \A k \in 1..Len(vs.rets) :
              k <= Len(vs.ints) =>
                /\ vs.rets[k] = Ok(vs.ints[k])
                /\ EncodedLen(vs.ints, k) - EncodedLen(vs.ints, k - 1)
                     = LayoutLen(vs.st.buf[EncodedLen(vs.ints, k - 1) + 1])
        /\ Len(vs.rets) <= Len(vs.ints)
              => vs.st.pos = EncodedLen(vs.ints, Len(vs.rets))
        /\ Len(vs.rets) >= Len(vs.ints) => vs.st.pos = Len(vs.st.buf)
        /\ Len(vs.rets) > Len(vs.ints)
              => vs.rets[Len(vs.rets)].err = IndexError

\* three integers of layouts 3, 1 and 9 bytes have been decoded from one
\* stream, which is exhausted
C14_Witness ==
    /\ op = "stream"
    /\ vs.ints = <<AllOnes(1), Small(252), AllOnes(4)>>
    /\ vs.rets = <<Ok(AllOnes(1)), Ok(Small(252)), Ok(AllOnes(4))>>
    /\ vs.st.pos = 13
    /\ Len(vs.st.buf) = 13

====
